---- MODULE Spec2Model ----
(***************************************************************************)
(* A model of exa's Git status resolver (src/fs/feature/git.rs) and of the *)
(* dot-filter option deduction (src/options/filter.rs).                    *)
(*                                                                         *)
(* Paths are sequences of one-character strings, so that the difference    *)
(* between a raw string prefix and a component-wise prefix is visible.     *)
(* git2::Status is a bit set; it is modelled as the integer holding the    *)
(* bits, with the values libgit2 gives them.                               *)
(***************************************************************************)
EXTENDS Integers, Sequences, FiniteSets, TLC

VARIABLES
    repoEntries,  \* the live repository: what repo.statuses() would report now
    ignored,      \* the live repository: the paths its ignore rules match now
    scanPc,       \* "init", "absent" (None), "present" (Some(Git)), "panicked"
    workdir,      \* Git.workdir
    statuses,     \* Git.statuses
    holder,       \* Git.repository: the caller holding the Mutex, 0 when free
    pc,           \* per caller: where it is inside should_ignore, "panicked"
                  \* when the call ended in a panic
    arg,          \* per caller: the path it passed to should_ignore
    res,          \* per caller: the Result of status_should_ignore
    ret,          \* per caller: the bool should_ignore returned
    lastQuery,    \* the last status / dir_status call and what it returned, with
                  \* whether the repository had changed (stale) and whether a
                  \* caller held the Mutex (busy) when it was made
    firstStatus,  \* the first status call made on this resolver
    flagsIn,      \* input of the flag reduction (SpecFlags)
    kinds,        \* output of the flag reduction (SpecFlags)
    dotIn,        \* input of DotFilter::deduce (SpecDot)
    dotOut        \* output of DotFilter::deduce (SpecDot)

vars == << repoEntries, ignored, scanPc, workdir, statuses, holder, pc, arg,
           res, ret, lastQuery, firstStatus, flagsIn, kinds, dotIn, dotOut >>

-----------------------------------------------------------------------------
(* Bounds of the model.                                                    *)

MaxEntries == 2      \* status entries of the repository in SpecQuery
MaxLive    == 1      \* status entries of the live repository in Spec
NumCallers == 2      \* concurrent callers of should_ignore
MaxAll     == 6      \* how many times --all is given
MaxTree    == 3      \* how many times --tree is given

-----------------------------------------------------------------------------
(* git2::Status bits.                                                      *)

STATUS_INDEX_NEW        == 1
STATUS_INDEX_MODIFIED   == 2
STATUS_INDEX_DELETED    == 4
STATUS_INDEX_RENAMED    == 8
STATUS_INDEX_TYPECHANGE == 16
STATUS_WT_NEW           == 128
STATUS_WT_MODIFIED      == 256
STATUS_WT_DELETED       == 512
STATUS_WT_TYPECHANGE    == 1024
STATUS_WT_RENAMED       == 2048
STATUS_IGNORED          == 16384
STATUS_CONFLICTED       == 32768

AllBits == << STATUS_INDEX_NEW, STATUS_INDEX_MODIFIED, STATUS_INDEX_DELETED,
              STATUS_INDEX_RENAMED, STATUS_INDEX_TYPECHANGE,
              STATUS_WT_NEW, STATUS_WT_MODIFIED, STATUS_WT_DELETED,
              STATUS_WT_TYPECHANGE, STATUS_WT_RENAMED,
              STATUS_IGNORED, STATUS_CONFLICTED >>

\* git2::Status::empty()
EmptyStatus == 0

\* s.contains(flag), for a one-bit flag
contains(s, flag) == (s \div flag) % 2 = 1

\* a | b
RECURSIVE OrBits(_, _, _)
OrBits(a, b, i) ==
    IF i > Len(AllBits) THEN 0
    ELSE (IF contains(a, AllBits[i]) \/ contains(b, AllBits[i])
          THEN AllBits[i] ELSE 0) + OrBits(a, b, i + 1)

BitOr(a, b) == OrBits(a, b, 1)

\* a faulty variant of working_tree_status: TYPECHANGE tested before RENAMED
working_tree_status_typechange_first(status) ==
    IF contains(status, STATUS_WT_NEW) THEN "New"
    ELSE IF contains(status, STATUS_WT_MODIFIED) THEN "Modified"
    ELSE IF contains(status, STATUS_WT_DELETED) THEN "Deleted"
    ELSE IF contains(status, STATUS_WT_TYPECHANGE) THEN "TypeChange"
    ELSE IF contains(status, STATUS_WT_RENAMED) THEN "Renamed"
    ELSE "NotModified"

working_tree_status(status) ==
    IF contains(status, STATUS_WT_NEW) THEN "New"
    ELSE IF contains(status, STATUS_WT_MODIFIED) THEN "Modified"
    ELSE IF contains(status, STATUS_WT_DELETED) THEN "Deleted"
    ELSE IF contains(status, STATUS_WT_RENAMED) THEN "Renamed"
    ELSE IF contains(status, STATUS_WT_TYPECHANGE) THEN "TypeChange"
    ELSE "NotModified"

index_status(status) ==
    IF contains(status, STATUS_INDEX_NEW) THEN "New"
    ELSE IF contains(status, STATUS_INDEX_MODIFIED) THEN "Modified"
    ELSE IF contains(status, STATUS_INDEX_DELETED) THEN "Deleted"
    ELSE IF contains(status, STATUS_INDEX_RENAMED) THEN "Renamed"
    ELSE IF contains(status, STATUS_INDEX_TYPECHANGE) THEN "TypeChange"
    ELSE "NotModified"

\* f::Git { staged, unstaged }
GitOf(s) == [staged |-> index_status(s), unstaged |-> working_tree_status(s)]

NotModifiedGit == [staged |-> "NotModified", unstaged |-> "NotModified"]

-----------------------------------------------------------------------------
(* std::path on Unix.  A component is the sequence of its characters; the  *)
(* root and "." components are the sequences below, which no normal        *)
(* component can equal; ".." is the component << ".", "." >>.              *)

Sep       == "/"
RootDir   == << "/" >>
CurDir    == << "." >>

\* the pieces between separators, empty ones dropped
RECURSIVE Pieces(_, _, _)
Pieces(p, i, cur) ==
    IF i > Len(p) THEN (IF cur = << >> THEN << >> ELSE << cur >>)
    ELSE IF p[i] = Sep
         THEN (IF cur = << >> THEN << >> ELSE << cur >>) \o Pieces(p, i + 1, << >>)
         ELSE Pieces(p, i + 1, Append(cur, p[i]))

has_root(p) == Len(p) > 0 /\ p[1] = Sep

\* Path::components(): "." is kept only as the first component of a
\* relative path; repeated and trailing separators vanish.
Components(p) ==
    LET ps   == Pieces(p, 1, << >>)
        keep == { i \in 1..Len(ps) :
                    ps[i] # CurDir \/ (i = 1 /\ ~has_root(p)) }
        RECURSIVE Kept(_)
        Kept(i) == IF i > Len(ps) THEN << >>
                   ELSE (IF i \in keep THEN << ps[i] >> ELSE << >>) \o Kept(i + 1)
    IN  (IF has_root(p) THEN << RootDir >> ELSE << >>) \o Kept(1)

\* a faulty variant of starts_with: a prefix of the characters
starts_with_raw(path, base) ==
    /\ Len(base) <= Len(path)
    /\ SubSeq(path, 1, Len(base)) = base

\* Path::starts_with(base): base's components, one by one, start path's
RECURSIVE iter_after(_, _, _)
iter_after(cs, bs, i) ==
    IF i > Len(bs) THEN TRUE
    ELSE IF i > Len(cs) THEN FALSE
    ELSE IF cs[i] # bs[i] THEN FALSE
    ELSE iter_after(cs, bs, i + 1)

starts_with(path, base) == iter_after(Components(path), Components(base), 1)

\* a faulty variant of PathEq: a prefix counts as a match
PathEqPrefix(a, b) == starts_with(a, b)

\* PartialEq for Path: the components are compared
PathEq(a, b) == Components(a) = Components(b)

\* Path::join: an absolute argument replaces the path, otherwise it is
\* appended after a separator (added when missing)
join(base, path) ==
    IF has_root(path) THEN path
    ELSE IF base = << >> \/ base[Len(base)] = Sep THEN base \o path
    ELSE base \o << Sep >> \o path

-----------------------------------------------------------------------------
(* The values the model draws its inputs from.                             *)

\* a byte that is not valid UTF-8, as one character of a path
BadByte == "0xFF"

\* repo.workdir(): libgit2 reports it with a trailing separator
WorkDir == << "/", "r", "/" >>

\* paths relative to the working directory, in the order libgit2 lists them
RelPaths == << << "b", "/", "x" >>,
               << "b", "/", "y" >>,
               << "b", "/", BadByte >>,
               << "b", "b", "/", "f" >> >>

\* raw flags of one status entry
FlagChoices == { STATUS_WT_MODIFIED,
                 STATUS_INDEX_NEW,
                 STATUS_WT_DELETED,
                 STATUS_INDEX_NEW + STATUS_INDEX_MODIFIED }

\* paths the listing pipeline may ask about
QueryPaths == { << "/", "r", "/", "b", "/", "x" >>,
                << "/", "r", "/", "/", "b", "/", "x" >>,
                << "/", "r", "/", ".", "/", "b", "/", "y" >>,
                << "/", "r", "/", "b" >>,
                << "/", "r", "/", "b", "/" >>,
                << "/", "r", "/", "b", "b" >>,
                << "/", "r" >>,
                << "b", "/", "x" >> }

\* the smaller sets Spec uses next to its concurrent callers
LivePathIdx    == { 1, 3 }
LiveFlags      == { STATUS_WT_MODIFIED }
MainQueryPaths == { << "/", "r", "/", "b", "/", "x" >> }

\* paths should_ignore is asked about, and those of them that the
\* repository's ignore rules can come to match
IgnorePaths    == { << "/", "r", "/", "b", "/", "x" >>, << "/", "q" >> }
IgnorablePaths == { << "/", "r", "/", "b", "/", "x" >> }

Callers == 1..NumCallers

\* what repo.statuses() can report: at most n entries over the paths idx,
\* each path once, in listing order
Listings(idx, flags, n) ==
    LET orders == { o \in UNION { [1..k -> idx] : k \in 0..n } :
                      \A i \in 1..Len(o) : \A j \in 1..Len(o) :
                          i < j => o[i] < o[j] }
    IN  UNION { { [i \in 1..Len(o) |-> [path |-> RelPaths[o[i]], status |-> f[i]]] :
                    f \in [1..Len(o) -> flags] } : o \in orders }

QueryRepos == Listings(1..Len(RelPaths), FlagChoices, MaxEntries)
LiveRepos  == Listings(LivePathIdx, LiveFlags, MaxLive)

-----------------------------------------------------------------------------
(* Git::scan                                                               *)

\* e.path(): None when the path is not valid UTF-8
entry_path(e) ==
    IF \E i \in 1..Len(e.path) : e.path[i] = BadByte
    THEN << >> ELSE << e.path >>

\* the Vec scan collects: workdir.join(e.path().unwrap()) with e.status()
Snapshot(wd, entries) ==
    [i \in 1..Len(entries) |->
        [path |-> join(wd, entry_path(entries[i])[1]), status |-> entries[i].status]]

\* the outcomes of a write to standard output
Stdout == {"Ok", "Err"}

\* println!: returns when the write succeeded, panics when it failed
println(out) == out = "Ok"

\* the outcome of scan for the outcomes of the provider's calls, discover
\* (Ok / Err), workdir (Some / None), statuses (Ok / Err), and of the write
\* of line 42, which comes before statuses() is asked
scan(discover, wd, out, stats, entries) ==
    IF discover = "Err" THEN [pc |-> "absent", workdir |-> << >>, statuses |-> << >>]
    ELSE IF wd = "None" THEN [pc |-> "absent", workdir |-> << >>, statuses |-> << >>]
    ELSE IF ~println(out)
         THEN [pc |-> "panicked", workdir |-> << >>, statuses |-> << >>]
    ELSE IF stats = "Err" THEN [pc |-> "absent", workdir |-> << >>, statuses |-> << >>]
    ELSE IF \E i \in 1..Len(entries) : entry_path(entries[i]) = << >>
         THEN [pc |-> "panicked", workdir |-> << >>, statuses |-> << >>]
    ELSE [pc |-> "present", workdir |-> WorkDir, statuses |-> Snapshot(WorkDir, entries)]

Scan ==
    /\ scanPc = "init"
    /\ \E discover \in {"Ok", "Err"}, wd \in {"Some", "None"}, out \in Stdout,
          stats \in {"Ok", "Err"} :
         LET r == scan(discover, wd, out, stats, repoEntries)
         IN  /\ scanPc' = r.pc
             /\ workdir' = r.workdir
             /\ statuses' = r.statuses
    /\ holder' = 0
    /\ UNCHANGED << repoEntries, ignored, pc, arg, res, ret, lastQuery, firstStatus,
                    flagsIn, kinds, dotIn, dotOut >>

-----------------------------------------------------------------------------
(* Git::status and Git::dir_status                                         *)

\* every path the repository lists now is valid UTF-8: line 47 would not panic
Rescannable == \A i \in 1..Len(repoEntries) : entry_path(repoEntries[i]) # << >>

\* a faulty variant of SelfStatuses: the repository is asked again on every query
LiveStatuses == IF Rescannable THEN Snapshot(WorkDir, repoEntries) ELSE statuses

\* self.statuses
SelfStatuses == statuses

\* self.statuses.iter().find(|p| p.0.as_path() == path): the index, 0 for None
RECURSIVE find(_, _, _)
find(sts, path, i) ==
    IF i > Len(sts) THEN 0
    ELSE IF PathEq(sts[i].path, path) THEN i
    ELSE find(sts, path, i + 1)

status(sts, path) ==
    LET i == find(sts, path, 1)
    IN  IF i # 0 THEN GitOf(sts[i].status) ELSE NotModifiedGit

\* a faulty variant of fold_flags: the accumulator is replaced, not or-ed
RECURSIVE fold_flags_last(_, _, _, _)
fold_flags_last(sts, dir, i, a) ==
    IF i > Len(sts) THEN a
    ELSE IF starts_with(sts[i].path, dir)
         THEN fold_flags_last(sts, dir, i + 1, sts[i].status)
         ELSE fold_flags_last(sts, dir, i + 1, a)

\* .filter(|p| p.0.starts_with(dir)).fold(a, |a, b| a | b.1), from entry i on
RECURSIVE fold_flags(_, _, _, _)
fold_flags(sts, dir, i, a) ==
    IF i > Len(sts) THEN a
    ELSE IF starts_with(sts[i].path, dir)
         THEN fold_flags(sts, dir, i + 1, BitOr(a, sts[i].status))
         ELSE fold_flags(sts, dir, i + 1, a)

dir_status(sts, dir) == GitOf(fold_flags(sts, dir, 1, EmptyStatus))

StatusCall(path) ==
    /\ scanPc = "present"
    /\ LET r == status(SelfStatuses, path)
           \* a scan made now would collect a Vec that answers otherwise
           stale == Rescannable /\ status(Snapshot(WorkDir, repoEntries), path) # r
       IN  /\ lastQuery' = << [op |-> "status", path |-> path, result |-> r,
                               stale |-> stale, busy |-> (holder # 0)] >>
           /\ firstStatus' = IF firstStatus = << >>
                             THEN << [path |-> path, result |-> r,
                                      stale |-> stale] >>
                             ELSE firstStatus
    /\ UNCHANGED << repoEntries, ignored, scanPc, workdir, statuses, holder, pc,
                    arg, res, ret, flagsIn, kinds, dotIn, dotOut >>

DirStatusCall(dir) ==
    /\ scanPc = "present"
    /\ lastQuery' = << [op |-> "dir_status", path |-> dir,
                        result |-> dir_status(SelfStatuses, dir),
                        stale |-> FALSE, busy |-> (holder # 0)] >>
    /\ UNCHANGED << repoEntries, ignored, scanPc, workdir, statuses, holder, pc,
                    arg, res, ret, firstStatus, flagsIn, kinds, dotIn, dotOut >>

-----------------------------------------------------------------------------
(* Git::should_ignore, one step per caller at a time                       *)

Err     == [ok |-> FALSE, val |-> FALSE]
Ok(b)   == [ok |-> TRUE, val |-> b]

\* Result::unwrap_or
unwrap_or(result, default) == IF result.ok THEN result.val ELSE default

\* repo.status_should_ignore(path): the live answer, or an error
status_should_ignore(path) == { Err, Ok(path \in ignored) }

\* a faulty variant of CanLock: the lock is taken whoever holds it
CanLockAnyway(t) == TRUE

\* Mutex::lock() returns once no other caller holds the guard
CanLock(t) == holder = 0

\* should_ignore is entered: the println! of line 82 writes the path, and
\* panics, before the Mutex is asked for, when the write fails
Call(t, path) ==
    /\ scanPc = "present"
    /\ pc[t] \in {"idle", "done"}
    /\ \E out \in Stdout :
         IF println(out)
         THEN /\ pc' = [pc EXCEPT ![t] = "lock"]
              /\ arg' = [arg EXCEPT ![t] = << path >>]
         ELSE /\ pc' = [pc EXCEPT ![t] = "panicked"]
              /\ arg' = [arg EXCEPT ![t] = << >>]
    /\ res' = [res EXCEPT ![t] = << >>]
    /\ ret' = [ret EXCEPT ![t] = << >>]
    /\ UNCHANGED << repoEntries, ignored, scanPc, workdir, statuses, holder,
                    lastQuery, firstStatus, flagsIn, kinds, dotIn, dotOut >>

\* self.repository.lock().unwrap(): no caller panics holding the guard, so
\* the Mutex is never poisoned and unwrap() returns the guard
Acquire(t) ==
    /\ pc[t] = "lock"
    /\ CanLock(t)
    /\ holder' = t
    /\ pc' = [pc EXCEPT ![t] = "held"]
    /\ UNCHANGED << repoEntries, ignored, scanPc, workdir, statuses, arg, res, ret,
                    lastQuery, firstStatus, flagsIn, kinds, dotIn, dotOut >>

\* .status_should_ignore(&*path), inside the provider session; path is not
\* used after it
IgnoreCall(t) ==
    /\ pc[t] = "held"
    /\ \E r \in status_should_ignore(arg[t][1]) :
         res' = [res EXCEPT ![t] = << r >>]
    /\ arg' = [arg EXCEPT ![t] = << >>]
    /\ pc' = [pc EXCEPT ![t] = "unlock"]
    /\ UNCHANGED << repoEntries, ignored, scanPc, workdir, statuses, holder,
                    ret, lastQuery, firstStatus, flagsIn, kinds, dotIn, dotOut >>

\* the end of the statement of line 83: the guard is dropped
Unlock(t) ==
    /\ pc[t] = "unlock"
    /\ holder' = 0
    /\ pc' = [pc EXCEPT ![t] = "unwrap"]
    /\ UNCHANGED << repoEntries, ignored, scanPc, workdir, statuses, arg, res, ret,
                    lastQuery, firstStatus, flagsIn, kinds, dotIn, dotOut >>

\* the println! of line 84 writes the result, then result.unwrap_or(false);
\* when the write fails the call panics: the result is dropped as the stack
\* unwinds and nothing is returned
Return(t) ==
    /\ pc[t] = "unwrap"
    /\ \E out \in Stdout :
         IF println(out)
         THEN /\ ret' = [ret EXCEPT ![t] = << unwrap_or(res[t][1], FALSE) >>]
              /\ pc' = [pc EXCEPT ![t] = "done"]
              /\ res' = res
         ELSE /\ ret' = ret
              /\ pc' = [pc EXCEPT ![t] = "panicked"]
              /\ res' = [res EXCEPT ![t] = << >>]
    /\ UNCHANGED << repoEntries, ignored, scanPc, workdir, statuses, holder, arg,
                    lastQuery, firstStatus, flagsIn, kinds, dotIn, dotOut >>

-----------------------------------------------------------------------------
(* The resolver's lifetime and the repository around it                    *)

NoCalls == [t \in Callers |-> << >>]

\* the Git value is dropped at the end of the listing; no caller is inside
Drop ==
    /\ scanPc = "present"
    /\ \A t \in Callers : pc[t] \in {"idle", "done", "panicked"}
    /\ scanPc' = "init"
    /\ workdir' = << >>
    /\ statuses' = << >>
    /\ holder' = 0
    /\ pc' = [t \in Callers |-> "idle"]
    /\ arg' = NoCalls
    /\ res' = NoCalls
    /\ ret' = NoCalls
    /\ lastQuery' = << >>
    /\ firstStatus' = << >>
    /\ UNCHANGED << repoEntries, ignored, flagsIn, kinds, dotIn, dotOut >>

\* somebody changes files of the repository: it reports other statuses
RepoChange ==
    /\ \E r \in LiveRepos :
         /\ r # repoEntries
         /\ repoEntries' = r
    /\ UNCHANGED << ignored, scanPc, workdir, statuses, holder, pc, arg, res, ret,
                    lastQuery, firstStatus, flagsIn, kinds, dotIn, dotOut >>

\* somebody changes the ignore rules of the repository
IgnoreChange ==
    /\ \E g \in SUBSET IgnorablePaths :
         /\ g # ignored
         /\ ignored' = g
    /\ UNCHANGED << repoEntries, scanPc, workdir, statuses, holder, pc, arg, res,
                    ret, lastQuery, firstStatus, flagsIn, kinds, dotIn, dotOut >>

-----------------------------------------------------------------------------
(* DotFilter::deduce                                                       *)

\* a faulty variant of deduce: the strict-mode conflict is tested before --tree
deduce_strict_first(count, tree, strict) ==
    IF count = 0 THEN "Ok(JustFiles)"
    ELSE IF count = 1 THEN "Ok(Dotfiles)"
    ELSE IF count >= 3 /\ strict THEN "Err(Conflict(ALL, ALL))"
    ELSE IF tree > 0 THEN "Err(TreeAllAll)"
    ELSE "Ok(DotfilesAndDots)"

\* count = matches.count(&flags::ALL), tree = matches.count(&flags::TREE),
\* strict = matches.is_strict()
deduce(count, tree, strict) ==
    IF count = 0 THEN "Ok(JustFiles)"
    ELSE IF count = 1 THEN "Ok(Dotfiles)"
    ELSE IF tree > 0 THEN "Err(TreeAllAll)"
    ELSE IF count >= 3 /\ strict THEN "Err(Conflict(ALL, ALL))"
    ELSE "Ok(DotfilesAndDots)"

Deduce ==
    /\ dotOut = << >>
    /\ dotOut' = << deduce(dotIn.all, dotIn.tree, dotIn.strict) >>
    /\ UNCHANGED << repoEntries, ignored, scanPc, workdir, statuses, holder, pc, arg,
                    res, ret, lastQuery, firstStatus, flagsIn, kinds, dotIn >>

-----------------------------------------------------------------------------
(* The flag reduction on its own                                           *)

\* every set of git2::Status bits
RECURSIVE SumOf(_)
SumOf(S) == IF S = {} THEN 0
            ELSE LET x == CHOOSE x \in S : TRUE IN x + SumOf(S \ {x})

AllStatuses == { SumOf(S) : S \in SUBSET { AllBits[i] : i \in 1..Len(AllBits) } }

Reduce ==
    /\ kinds = << >>
    /\ kinds' = << GitOf(flagsIn) >>
    /\ UNCHANGED << repoEntries, ignored, scanPc, workdir, statuses, holder, pc, arg,
                    res, ret, lastQuery, firstStatus, flagsIn, dotIn, dotOut >>

-----------------------------------------------------------------------------
(* Specifications                                                          *)

NoDot == [all |-> 0, tree |-> 0, strict |-> FALSE]

\* nothing scanned yet, no caller inside should_ignore
InitResolver ==
    /\ scanPc = "init"
    /\ workdir = << >>
    /\ statuses = << >>
    /\ holder = 0
    /\ pc = [t \in Callers |-> "idle"]
    /\ arg = NoCalls
    /\ res = NoCalls
    /\ ret = NoCalls
    /\ lastQuery = << >>
    /\ firstStatus = << >>

Init ==
    /\ repoEntries \in LiveRepos
    /\ ignored \in SUBSET IgnorablePaths
    /\ InitResolver
    /\ flagsIn = EmptyStatus /\ kinds = << >>
    /\ dotIn = NoDot /\ dotOut = << >>

Next ==
    \/ Scan
    \/ Drop
    \/ RepoChange
    \/ IgnoreChange
    \/ \E p \in MainQueryPaths : StatusCall(p)
    \/ \E d \in MainQueryPaths : DirStatusCall(d)
    \/ \E t \in Callers : \E p \in IgnorePaths : Call(t, p)
    \/ \E t \in Callers : Acquire(t)
    \/ \E t \in Callers : IgnoreCall(t)
    \/ \E t \in Callers : Unlock(t)
    \/ \E t \in Callers : Return(t)

Spec == Init /\ [][Next]_vars

\* every caller inside should_ignore keeps running (weak fairness); a caller
\* waiting for the Mutex gets it if it is free again and again (strong
\* fairness: with weak fairness alone, callers that call again without end
\* can keep a waiter out)
Fairness ==
    \A t \in Callers :
        /\ SF_vars(Acquire(t))
        /\ WF_vars(IgnoreCall(t))
        /\ WF_vars(Unlock(t))
        /\ WF_vars(Return(t))

\* the callers of one resolver that scan has returned, under fairness
InitCallers ==
    /\ repoEntries \in LiveRepos
    /\ ignored \in SUBSET IgnorablePaths
    /\ LET r == scan("Ok", "Some", "Ok", "Ok", repoEntries)
       IN  /\ r.pc = "present"
           /\ scanPc = r.pc
           /\ workdir = r.workdir
           /\ statuses = r.statuses
    /\ holder = 0
    /\ pc = [t \in Callers |-> "idle"]
    /\ arg = NoCalls
    /\ res = NoCalls
    /\ ret = NoCalls
    /\ lastQuery = << >>
    /\ firstStatus = << >>
    /\ flagsIn = EmptyStatus /\ kinds = << >>
    /\ dotIn = NoDot /\ dotOut = << >>

NextCallers ==
    \/ IgnoreChange
    \/ \E p \in MainQueryPaths : StatusCall(p)
    \/ \E d \in MainQueryPaths : DirStatusCall(d)
    \/ \E t \in Callers : \E p \in IgnorePaths : Call(t, p)
    \/ \E t \in Callers : Acquire(t)
    \/ \E t \in Callers : IgnoreCall(t)
    \/ \E t \in Callers : Unlock(t)
    \/ \E t \in Callers : Return(t)

FairCallers == InitCallers /\ [][NextCallers]_vars /\ Fairness

\* one scan of a repository, then queries of its snapshot
InitQuery ==
    /\ repoEntries \in QueryRepos
    /\ ignored = {}
    /\ InitResolver
    /\ flagsIn = EmptyStatus /\ kinds = << >>
    /\ dotIn = NoDot /\ dotOut = << >>

NextQuery ==
    \/ Scan
    \/ \E p \in QueryPaths : StatusCall(p)
    \/ \E d \in QueryPaths : DirStatusCall(d)

SpecQuery == InitQuery /\ [][NextQuery]_vars

\* the reduction of every raw flag set
InitFlags ==
    /\ repoEntries = << >>
    /\ ignored = {}
    /\ InitResolver
    /\ flagsIn \in AllStatuses /\ kinds = << >>
    /\ dotIn = NoDot /\ dotOut = << >>

NextFlags == Reduce

SpecFlags == InitFlags /\ [][NextFlags]_vars

\* the dot filter of every number of --all and --tree, strict or not
InitDot ==
    /\ repoEntries = << >>
    /\ ignored = {}
    /\ InitResolver
    /\ flagsIn = EmptyStatus /\ kinds = << >>
    /\ dotIn \in [all : 0..MaxAll, tree : 0..MaxTree, strict : BOOLEAN]
    /\ dotOut = << >>

NextDot == Deduce

SpecDot == InitDot /\ [][NextDot]_vars

-----------------------------------------------------------------------------
(* Properties                                                              *)

\* the Change Kinds in priority order, and the flag of each on either side
PriorityKinds == << "New", "Modified", "Deleted", "Renamed", "TypeChange" >>

IndexFlagOf == << STATUS_INDEX_NEW, STATUS_INDEX_MODIFIED, STATUS_INDEX_DELETED,
                  STATUS_INDEX_RENAMED, STATUS_INDEX_TYPECHANGE >>

WtFlagOf == << STATUS_WT_NEW, STATUS_WT_MODIFIED, STATUS_WT_DELETED,
               STATUS_WT_RENAMED, STATUS_WT_TYPECHANGE >>

\* kind is the first of PriorityKinds whose flag has(_) holds of, or
\* NotModified when there is none
FirstMatch(kind, has(_), flagOf) ==
    /\ \A k \in 1..Len(PriorityKinds) :
         (kind = PriorityKinds[k]) <=>
             (has(flagOf[k]) /\ \A j \in 1..(k - 1) : ~has(flagOf[j]))
    /\ (kind = "NotModified") <=> (\A k \in 1..Len(PriorityKinds) : ~has(flagOf[k]))

\* C1: scan never aborts: it ends absent, with nothing of a resolver built, or
\* present with the working directory and one snapshot entry per status
\* entry the provider reports.
ScanNeverAborts ==
    /\ scanPc \in {"init", "absent", "present"}
    /\ scanPc = "absent" => workdir = << >> /\ statuses = << >>
    /\ scanPc = "present" =>
         /\ workdir = WorkDir
         /\ Len(statuses) = Len(repoEntries)
         /\ \A i \in 1..Len(statuses) :
              statuses[i].status = repoEntries[i].status

\* C2: status(path) is decided by the snapshot entry whose path equals path,
\* from that entry's flags alone: only an unstaged modification gives
\* (NotModified, Modified); with no equal entry it is (NotModified, NotModified),
\* whatever entries lie below path.
StatusMatchesByEquality ==
    (lastQuery # << >> /\ lastQuery[1].op = "status") =>
        LET q == lastQuery[1]
            M == { i \in 1..Len(statuses) :
                     Components(statuses[i].path) = Components(q.path) }
        IN  /\ M = {} => q.result = NotModifiedGit
            /\ \A i \in M :
                 /\ q.result.staged = index_status(statuses[i].status)
                 /\ q.result.unstaged = working_tree_status(statuses[i].status)
                 /\ statuses[i].status = STATUS_WT_MODIFIED =>
                      q.result = [staged |-> "NotModified", unstaged |-> "Modified"]

StatusMatchWitness ==
    /\ lastQuery # << >>
    /\ lastQuery[1].op = "status"
    /\ lastQuery[1].path = << "/", "r", "/", "/", "b", "/", "x" >>
    /\ lastQuery[1].result = [staged |-> "NotModified", unstaged |-> "Modified"]
    /\ Len(statuses) = 2
    /\ statuses[1].status = STATUS_WT_MODIFIED
    /\ statuses[2].status = STATUS_INDEX_NEW

\* C3: each side is the first of New, Modified, Deleted, Renamed, TypeChange
\* whose flag is set, NotModified when none is: the staged kind by the index
\* flags, the unstaged kind by the working-tree flags.
PriorityReduction ==
    kinds # << >> =>
        LET has(f) == contains(flagsIn, f)
        IN  /\ FirstMatch(kinds[1].staged, has, IndexFlagOf)
            /\ FirstMatch(kinds[1].unstaged, has, WtFlagOf)
            /\ (has(STATUS_INDEX_NEW) /\ has(STATUS_INDEX_MODIFIED)) =>
                 kinds[1].staged = "New"
            /\ (has(STATUS_WT_NEW) /\ has(STATUS_WT_MODIFIED)) =>
                 kinds[1].unstaged = "New"

PriorityWitness ==
    /\ kinds # << >>
    /\ contains(flagsIn, STATUS_INDEX_NEW)
    /\ contains(flagsIn, STATUS_INDEX_MODIFIED)
    /\ contains(flagsIn, STATUS_WT_RENAMED)
    /\ contains(flagsIn, STATUS_WT_TYPECHANGE)
    /\ kinds[1] = [staged |-> "New", unstaged |-> "Renamed"]

\* C4: dir_status(dir) reduces, side by side, the union of the flags of the
\* snapshot entries that start with dir: a flag counts when any such entry has
\* it; with no such entry the result is (NotModified, NotModified).
DirStatusOrThenReduce ==
    (lastQuery # << >> /\ lastQuery[1].op = "dir_status") =>
        LET q == lastQuery[1]
            M == { i \in 1..Len(statuses) : starts_with(statuses[i].path, q.path) }
            has(f) == \E i \in M : contains(statuses[i].status, f)
        IN  /\ FirstMatch(q.result.staged, has, IndexFlagOf)
            /\ FirstMatch(q.result.unstaged, has, WtFlagOf)
            /\ M = {} => q.result = NotModifiedGit

DirStatusWitness ==
    /\ lastQuery # << >>
    /\ lastQuery[1].op = "dir_status"
    /\ lastQuery[1].path = << "/", "r", "/", "b" >>
    /\ Len(statuses) = 2
    /\ statuses[1] = [path |-> << "/", "r", "/", "b", "/", "x" >>,
                      status |-> STATUS_INDEX_NEW]
    /\ statuses[2] = [path |-> << "/", "r", "/", "b", "/", "y" >>,
                      status |-> STATUS_WT_DELETED]
    /\ lastQuery[1].result = [staged |-> "New", unstaged |-> "Deleted"]

\* C5: only entries whose components begin with the components of dir
\* contribute to dir_status(dir): a side is other than NotModified only if
\* such an entry has a flag of that side.
DirPrefixIsComponentWise ==
    (lastQuery # << >> /\ lastQuery[1].op = "dir_status") =>
        LET q  == lastQuery[1]
            cd == Components(q.path)
            M  == { i \in 1..Len(statuses) :
                      LET ce == Components(statuses[i].path)
                      IN  Len(cd) <= Len(ce) /\ SubSeq(ce, 1, Len(cd)) = cd }
            has(f) == \E i \in M : contains(statuses[i].status, f)
        IN  /\ q.result.staged # "NotModified" =>
                 \E k \in 1..Len(IndexFlagOf) : has(IndexFlagOf[k])
            /\ q.result.unstaged # "NotModified" =>
                 \E k \in 1..Len(WtFlagOf) : has(WtFlagOf[k])

DirPrefixWitness ==
    /\ lastQuery # << >>
    /\ lastQuery[1].op = "dir_status"
    /\ lastQuery[1].path = << "/", "r", "/", "b" >>
    /\ Len(statuses) = 2
    /\ statuses[1] = [path |-> << "/", "r", "/", "b", "/", "x" >>,
                      status |-> STATUS_WT_MODIFIED]
    /\ statuses[2] = [path |-> << "/", "r", "/", "b", "b", "/", "f" >>,
                      status |-> STATUS_INDEX_NEW]
    /\ lastQuery[1].result = [staged |-> "NotModified", unstaged |-> "Modified"]

\* C6: should_ignore never fails the caller: no call ends in a panic, and a
\* call that has returned gave false when the provider's call failed and the
\* provider's answer otherwise.
ShouldIgnoreNeverFails ==
    \A t \in Callers :
        /\ pc[t] # "panicked"
        /\ pc[t] = "done" =>
             /\ res[t] # << >>
             /\ ret[t] = << (res[t][1].ok /\ res[t][1].val) >>
        /\ pc[t] # "done" => ret[t] = << >>

\* C7: at most one caller is inside the provider session at any time, and a
\* caller inside it holds the lock.
MutualExclusion ==
    /\ Cardinality({ t \in Callers : pc[t] \in {"held", "unlock"} }) <= 1
    /\ \A t \in Callers : pc[t] \in {"held", "unlock"} => holder = t

MutualExclusionWitness ==
    \E t \in Callers : \E u \in Callers :
        /\ pc[t] = "held" /\ holder = t
        /\ pc[u] = "lock"

\* C8: while a resolver lives, no step changes its snapshot or its working
\* directory, and a status call answers as the first status call on the same
\* path did, whatever the repository has become.
SnapshotImmutable ==
    /\ [][(scanPc = "present" /\ scanPc' = "present") =>
            (statuses' = statuses /\ workdir' = workdir)]_vars
    /\ []((lastQuery # << >> /\ firstStatus # << >>) =>
            ((lastQuery[1].op = "status" /\ lastQuery[1].path = firstStatus[1].path)
                => lastQuery[1].result = firstStatus[1].result))

SnapshotImmutableWitness ==
    /\ lastQuery # << >>
    /\ firstStatus # << >>
    /\ lastQuery[1].op = "status"
    /\ lastQuery[1].path = firstStatus[1].path
    /\ ~firstStatus[1].stale
    /\ lastQuery[1].stale
    /\ \E t \in Callers : pc[t] = "done"

\* C9: the dot filter for a --all flags, t --tree flags and strictness.
DotFilterCases ==
    dotOut # << >> =>
        LET a == dotIn.all
            t == dotIn.tree
        IN  /\ a = 0 => dotOut[1] = "Ok(JustFiles)"
            /\ a = 1 => dotOut[1] = "Ok(Dotfiles)"
            /\ (a >= 2 /\ t > 0) => dotOut[1] = "Err(TreeAllAll)"
            /\ (a >= 3 /\ t = 0 /\ dotIn.strict) =>
                 dotOut[1] = "Err(Conflict(ALL, ALL))"
            /\ (a = 2 /\ t = 0) => dotOut[1] = "Ok(DotfilesAndDots)"
            /\ (a >= 3 /\ t = 0 /\ ~dotIn.strict) =>
                 dotOut[1] = "Ok(DotfilesAndDots)"

DotFilterWitness ==
    /\ dotOut = << "Err(TreeAllAll)" >>
    /\ dotIn.all >= 3
    /\ dotIn.tree > 0
    /\ dotIn.strict

\* C10: every should_ignore call that waits for the session gets it, is served
\* and returns a boolean, one caller after the other.
EveryCallReturns ==
    \A t \in Callers :
        (pc[t] = "lock") ~> (pc[t] = "done" /\ ret[t] \in {<< TRUE >>, << FALSE >>})

====
